---- MODULE Spec2Model ----
\* Model of SharedWorkflowRepository (src/unnamed/part_000) and of the
\* cloud-plan REST client (src/packages/editor-ui/src/api/cloudPlans.ts).
\*
\* The shared_workflow table is a sequence of rows (workflowId, userId, roleId).
\* Every repository method is one action; a query leaves the table alone and
\* records its arguments and result in ret, a mutation also records the table
\* it started from in prev.  A `where` object of the ORM is a function from
\* the column names it mentions to the set of values it accepts, so a property
\* the code leaves out of `where` is a column without a constraint.
EXTENDS Integers, Sequences, FiniteSets, TLC

VARIABLES rows, prev, ret

vars == <<rows, prev, ret>>

\* ---------------------------------------------------------------- bounds
MaxRows == 2
MaxUsers == 2

\* ---------------------------------------------------------------- inputs
WorkflowIds == {"w1", "w2"}

\* Role rows: id and name.
RoleName == [r1 |-> "owner", r2 |-> "editor"]

RoleIds == DOMAIN RoleName

RoleNames == {RoleName[r] : r \in RoleIds}

Scopes == {"workflow:read", "workflow:update"}

\* User objects as the callers pass them: id, pending flag, global role name
\* and the global scopes the user holds.
Users ==
  { [id |-> "u1", isPending |-> FALSE, globalRole |-> "member", scopes |-> {}],
    [id |-> "u2", isPending |-> FALSE, globalRole |-> "member", scopes |-> {"workflow:read"}],
    [id |-> "u3", isPending |-> FALSE, globalRole |-> "owner",
     scopes |-> {"workflow:read", "workflow:update"}],
    [id |-> "u4", isPending |-> TRUE, globalRole |-> "admin", scopes |-> {}] }

UserIds == {u.id : u \in Users}

\* An optional argument: <<>> when omitted, <<v>> when given.
Roles == {[id |-> r, name |-> RoleName[r]] : r \in RoleIds}

Opt(S) == {<<>>} \cup {<<v>> : v \in S}

SeqUpTo(S, n) == UNION {[1..k -> S] : k \in 0..n}

FieldLists == { {"workflowId"}, {"workflowId", "userId"},
                {"userId", "roleId"}, {"workflowId", "userId", "roleId"} }

BaseUrls == {"https://a.example/rest", "https://b.example/rest"}

\* What the transport can answer to one GET.
Outcomes == { [ok |-> TRUE, body |-> "body1"], [ok |-> TRUE, body |-> "body2"],
              [ok |-> FALSE, body |-> "ECONNRESET"], [ok |-> FALSE, body |-> "HTTP500"] }

\* ---------------------------------------------------------------- ORM
hasGlobalScope(user, scope) == scope \in user.scopes

\* The value of a column (or joined column) of a row.
Col(row, k) ==
  CASE k = "workflowId" -> row.workflowId
    [] k = "userId" -> row.userId
    [] k = "roleId" -> row.roleId
    [] k = "roleName" -> RoleName[row.roleId]

Matches(row, where) == \A k \in DOMAIN where : Col(row, k) \in where[k]

\* Find operators.
In(values) == values

Not(value) == UserIds \ {value}

find(table, where) == SelectSeq(table, LAMBDA row : Matches(row, where))

exist(table, where) == \E i \in DOMAIN table : Matches(table[i], where)

\* findOne has no ORDER BY: any matching row may come back, null (<<>>) if none.
findOne(table, where) ==
  IF exist(table, where)
    THEN {<<table[i]>> : i \in {j \in DOMAIN table : Matches(table[j], where)}}
    ELSE {<<>>}

\* update(criteria, {user}): every matching row gets the user, the rest stay.
update(table, criteria, user) ==
  [i \in DOMAIN table |->
     IF Matches(table[i], criteria) THEN [table[i] EXCEPT !.userId = user.id] ELSE table[i]]

\* delete(criteria): the matching rows go.
delete(table, criteria) == SelectSeq(table, LAMBDA row : ~Matches(row, criteria))

\* save(entities): one INSERT per entity handed over, in order.
save(table, entities) == table \o entities

\* select: the entity keeps the selected columns only.
Project(row, fields) == [k \in fields |-> Col(row, k)]

\* One-column where object, and the where object without a property.
Where(k, values) == [x \in {k} |-> values]

EmptyWhere == [x \in {} |-> {}]

Init ==
  /\ rows = <<>>
  /\ prev = <<>>
  /\ ret = [op |-> "idle"]

\* No call is in progress: the methods are awaited one at a time.
Idle == ret.op = "idle"

\* The promise of the call in progress settles and the caller goes on.
Resolve ==
  /\ ~Idle
  /\ ret' = [op |-> "idle"]
  /\ prev' = rows
  /\ UNCHANGED rows

\* ---------------------------------------------------------------- hasAccess
\* Faulty variant: the user filter is applied whatever the global scope.
hasAccess_mut(table, workflowId, user) ==
  exist(table, Where("workflowId", {workflowId}) @@ Where("userId", {user.id}))

hasAccess(table, workflowId, user) ==
  LET where0 == Where("workflowId", {workflowId})
      where == IF ~hasGlobalScope(user, "workflow:read")
                 THEN where0 @@ Where("userId", {user.id})
                 ELSE where0
  IN exist(table, where)

HasAccess ==
  /\ Idle
  /\ \E workflowId \in WorkflowIds, user \in Users :
    /\ ret' = [op |-> "hasAccess", workflowId |-> workflowId, user |-> user,
               value |-> hasAccess(rows, workflowId, user)]
    /\ prev' = rows
    /\ UNCHANGED rows

\* ---------------------------------------------------------------- findSharing
\* The set of rows findOne may return (<<>> is null).
findSharing(table, workflowId, user, scope, roles) ==
  LET where0 == Where("workflowId", {workflowId})
      where1 == IF ~hasGlobalScope(user, scope)
                  THEN where0 @@ Where("userId", {user.id})
                  ELSE where0
      where == IF roles # <<>>
                 THEN where1 @@ Where("roleName", In(roles[1]))
                 ELSE where1
  IN findOne(table, where)

FindSharing ==
  /\ Idle
  /\ \E workflowId \in WorkflowIds, user \in Users, scope \in Scopes,
     roles \in Opt(SUBSET RoleNames) :
    \E found \in findSharing(rows, workflowId, user, scope, roles) :
      /\ ret' = [op |-> "findSharing", workflowId |-> workflowId, user |-> user,
                 scope |-> scope, roles |-> roles, value |-> found]
      /\ prev' = rows
      /\ UNCHANGED rows

\* ---------------------------------------------------------------- makeOwnerOfAllWorkflows
\* Faulty variant: the criteria lack roleId.
makeOwnerOfAllWorkflows_mut(table, user, role) ==
  update(table, Where("userId", Not(user.id)), user)

makeOwnerOfAllWorkflows(table, user, role) ==
  update(table, Where("userId", Not(user.id)) @@ Where("roleId", {role.id}), user)

MakeOwnerOfAllWorkflows ==
  /\ Idle
  /\ \E user \in Users, role \in Roles :
    /\ rows' = makeOwnerOfAllWorkflows(rows, user, role)
    /\ prev' = rows
    /\ ret' = [op |-> "makeOwnerOfAllWorkflows", user |-> user, role |-> role]

\* ---------------------------------------------------------------- getSharing
GetSharingOptions ==
  {[allowGlobalScope |-> FALSE]}
    \cup {[allowGlobalScope |-> TRUE, globalScope |-> s] : s \in Scopes}

\* Faulty variant: allowGlobalScope is tested the wrong way round.
getSharing_mut(table, user, workflowId, options) ==
  LET where0 == Where("workflowId", {workflowId})
      where == IF options.allowGlobalScope /\ ~hasGlobalScope(user, options.globalScope)
                 THEN where0 @@ Where("userId", {user.id})
                 ELSE where0
  IN findOne(table, where)

getSharing(table, user, workflowId, options) ==
  LET where0 == Where("workflowId", {workflowId})
      where == IF ~options.allowGlobalScope \/ ~hasGlobalScope(user, options.globalScope)
                 THEN where0 @@ Where("userId", {user.id})
                 ELSE where0
  IN findOne(table, where)

GetSharing ==
  /\ Idle
  /\ \E user \in Users, workflowId \in WorkflowIds, options \in GetSharingOptions :
    \E found \in getSharing(rows, user, workflowId, options) :
      /\ ret' = [op |-> "getSharing", user |-> user, workflowId |-> workflowId,
                 options |-> options, value |-> found]
      /\ prev' = rows
      /\ UNCHANGED rows

\* ---------------------------------------------------------------- getSharedWorkflows
\* Faulty variant: the global scope decides instead of the global role name.
getSharedWorkflows_mut(table, user, workflowIds) ==
  LET where0 == IF ~hasGlobalScope(user, "workflow:read")
                  THEN Where("userId", {user.id})
                  ELSE EmptyWhere
      where == IF workflowIds # <<>>
                 THEN where0 @@ Where("workflowId", In(workflowIds[1]))
                 ELSE where0
  IN find(table, where)

getSharedWorkflows(table, user, workflowIds) ==
  LET where0 == IF ~(user.globalRole \in {"owner", "admin"})
                  THEN Where("userId", {user.id})
                  ELSE EmptyWhere
      where == IF workflowIds # <<>>
                 THEN where0 @@ Where("workflowId", In(workflowIds[1]))
                 ELSE where0
  IN find(table, where)

GetSharedWorkflows ==
  /\ Idle
  /\ \E user \in Users, workflowIds \in Opt(SUBSET WorkflowIds) :
    /\ ret' = [op |-> "getSharedWorkflows", user |-> user, workflowIds |-> workflowIds,
               value |-> getSharedWorkflows(rows, user, workflowIds)]
    /\ prev' = rows
    /\ UNCHANGED rows

\* ---------------------------------------------------------------- share
RECURSIVE reduceUsers(_, _, _, _)
\* users.reduce over users[i..]: acc grows by one entity per non-pending user.
reduceUsers(acc, users, workflow, roleId) ==
  IF users = <<>> THEN acc
  ELSE LET user == Head(users)
       IN IF user.isPending
            THEN reduceUsers(acc, Tail(users), workflow, roleId)
            ELSE reduceUsers(
                   Append(acc, [workflowId |-> workflow.id, userId |-> user.id,
                                roleId |-> roleId]),
                   Tail(users), workflow, roleId)

\* Faulty variant: pending users are not skipped.
newSharedWorkflows_mut(workflow, users, roleId) ==
  [i \in DOMAIN users |->
     [workflowId |-> workflow.id, userId |-> users[i].id, roleId |-> roleId]]

\* The batch share hands to transaction.save.
newSharedWorkflows(workflow, users, roleId) == reduceUsers(<<>>, users, workflow, roleId)

share(table, workflow, users, roleId) ==
  save(table, newSharedWorkflows(workflow, users, roleId))

Share ==
  /\ Idle
  /\ \E wid \in WorkflowIds, users \in SeqUpTo(Users, MaxUsers), roleId \in RoleIds :
    LET workflow == [id |-> wid]
    IN /\ Len(share(rows, workflow, users, roleId)) <= MaxRows
       /\ rows' = share(rows, workflow, users, roleId)
       /\ prev' = rows
       /\ ret' = [op |-> "share", workflow |-> workflow, users |-> users,
                  roleId |-> roleId,
                  value |-> newSharedWorkflows(workflow, users, roleId)]

\* ---------------------------------------------------------------- findWithFields
\* Faulty variant: the workflowId filter is missing.
findWithFields_mut(table, workflowIds, fields) ==
  LET found == find(table, EmptyWhere)
  IN [i \in DOMAIN found |-> Project(found[i], fields)]

findWithFields(table, workflowIds, fields) ==
  LET found == find(table, Where("workflowId", In(workflowIds)))
  IN [i \in DOMAIN found |-> Project(found[i], fields)]

FindWithFields ==
  /\ Idle
  /\ \E workflowIds \in SUBSET WorkflowIds, fields \in FieldLists :
    /\ ret' = [op |-> "findWithFields", workflowIds |-> workflowIds, fields |-> fields,
               value |-> findWithFields(rows, workflowIds, fields)]
    /\ prev' = rows
    /\ UNCHANGED rows

\* ---------------------------------------------------------------- deleteByIds
\* Faulty variant: the user is left out of the criteria.
deleteByIds_mut(table, sharedWorkflowIds, user) ==
  delete(table, Where("workflowId", In(sharedWorkflowIds)))

deleteByIds(table, sharedWorkflowIds, user) ==
  LET where0 == Where("workflowId", In(sharedWorkflowIds))
      where == IF user # <<>> THEN where0 @@ Where("userId", {user[1].id}) ELSE where0
  IN delete(table, where)

DeleteByIds ==
  /\ Idle
  /\ \E sharedWorkflowIds \in SUBSET WorkflowIds, user \in Opt(Users) :
    /\ rows' = deleteByIds(rows, sharedWorkflowIds, user)
    /\ prev' = rows
    /\ ret' = [op |-> "deleteByIds", sharedWorkflowIds |-> sharedWorkflowIds,
               user |-> user]

\* ---------------------------------------------------------------- findWorkflowIdsByUser
\* Faulty variant: an empty roles list is treated as no roles.
findWorkflowIdsByUser_mut(table, user, roles) ==
  LET where0 == IF ~hasGlobalScope(user, "workflow:read")
                  THEN Where("userId", {user.id})
                  ELSE EmptyWhere
      where == IF roles # <<>> /\ roles[1] # {}
                 THEN where0 @@ Where("roleId", In({r.id : r \in roles[1]}))
                 ELSE where0
      sharings == find(table, where)
  IN [i \in DOMAIN sharings |-> sharings[i].workflowId]

findWorkflowIdsByUser(table, user, roles) ==
  LET where0 == IF ~hasGlobalScope(user, "workflow:read")
                  THEN Where("userId", {user.id})
                  ELSE EmptyWhere
      where == IF roles # <<>>
                 THEN where0 @@ Where("roleId", In({r.id : r \in roles[1]}))
                 ELSE where0
      sharings == find(table, where)
  IN [i \in DOMAIN sharings |-> sharings[i].workflowId]

FindWorkflowIdsByUser ==
  /\ Idle
  /\ \E user \in Users, roles \in Opt(SUBSET Roles) :
    /\ ret' = [op |-> "findWorkflowIdsByUser", user |-> user, roles |-> roles,
               value |-> findWorkflowIdsByUser(rows, user, roles)]
    /\ prev' = rows
    /\ UNCHANGED rows

\* ---------------------------------------------------------------- cloudPlans
\* One GET of the transport: the request it sends and the outcome it settles with.
get(baseUrl, endpoint, outcome) ==
  [requests |-> <<[method |-> "GET", baseUrl |-> baseUrl, endpoint |-> endpoint]>>,
   result |-> outcome]

getCurrentPlan(context, outcome) == get(context.baseUrl, "/admin/cloud-plan", outcome)

\* Faulty variant: a failed GET is sent again and its error replaced.
getCurrentUsage_mut(context, outcome) ==
  LET first == get(context.baseUrl, "/cloud/limits", outcome)
  IN IF outcome.ok THEN first
     ELSE [requests |-> first.requests \o first.requests,
           result |-> [ok |-> FALSE, body |-> "Error"]]

getCurrentUsage(context, outcome) == get(context.baseUrl, "/cloud/limits", outcome)

getAdminPanelLoginCode(context, outcome) ==
  get(context.baseUrl, "/admin/auth/login/code", outcome)

CloudCall(op, call) ==
  /\ ret' = [op |-> op, context |-> call.context, transport |-> call.outcome,
             requests |-> call.io.requests, value |-> call.io.result]
  /\ prev' = rows
  /\ UNCHANGED rows

GetCurrentPlan ==
  /\ Idle
  /\ \E baseUrl \in BaseUrls, outcome \in Outcomes :
    LET context == [baseUrl |-> baseUrl]
    IN CloudCall("getCurrentPlan",
                 [context |-> context, outcome |-> outcome,
                  io |-> getCurrentPlan(context, outcome)])

GetCurrentUsage ==
  /\ Idle
  /\ \E baseUrl \in BaseUrls, outcome \in Outcomes :
    LET context == [baseUrl |-> baseUrl]
    IN CloudCall("getCurrentUsage",
                 [context |-> context, outcome |-> outcome,
                  io |-> getCurrentUsage(context, outcome)])

GetAdminPanelLoginCode ==
  /\ Idle
  /\ \E baseUrl \in BaseUrls, outcome \in Outcomes :
    LET context == [baseUrl |-> baseUrl]
    IN CloudCall("getAdminPanelLoginCode",
                 [context |-> context, outcome |-> outcome,
                  io |-> getAdminPanelLoginCode(context, outcome)])

\* ---------------------------------------------------------------- specification
Next ==
  \/ HasAccess
  \/ FindSharing
  \/ MakeOwnerOfAllWorkflows
  \/ GetSharing
  \/ GetSharedWorkflows
  \/ Share
  \/ FindWithFields
  \/ DeleteByIds
  \/ FindWorkflowIdsByUser
  \/ GetCurrentPlan
  \/ GetCurrentUsage
  \/ GetAdminPanelLoginCode
  \/ Resolve

Spec == Init /\ [][Next]_vars

\* ---------------------------------------------------------------- properties
Rows(table) == {table[i] : i \in DOMAIN table}

\* C1: hasAccess(workflowId, user) is true iff a sharing row with that
\* workflowId exists and, unless the user holds the global scope
\* 'workflow:read', that row's userId is user.id.
C1_HasAccessIffRow ==
  ret.op = "hasAccess" =>
    (ret.value <=>
       \E row \in Rows(rows) :
         /\ row.workflowId = ret.workflowId
         /\ ("workflow:read" \in ret.user.scopes \/ row.userId = ret.user.id))

\* A holder of 'workflow:read' is granted access through a row of another user.
C1_Witness ==
  /\ ret.op = "hasAccess"
  /\ ret.value
  /\ "workflow:read" \in ret.user.scopes
  /\ \A row \in Rows(rows) : row.userId # ret.user.id

\* C2: share hands to transaction.save exactly one entity (workflow.id,
\* user.id, roleId) per non-pending user of the list, in list order, none for
\* a pending user, and the table grows by exactly that batch.
C2_ShareSkipsPending ==
  ret.op = "share" =>
    LET nonPending == SelectSeq(ret.users, LAMBDA u : ~u.isPending)
    IN /\ Len(ret.value) = Len(nonPending)
       /\ \A j \in 1..Len(nonPending) :
            ret.value[j] = [workflowId |-> ret.workflow.id,
                            userId |-> nonPending[j].id, roleId |-> ret.roleId]
       /\ \A i \in DOMAIN ret.users :
            ret.users[i].isPending =>
              \A j \in DOMAIN ret.value : ret.value[j].userId # ret.users[i].id
       /\ rows = prev \o ret.value

\* A share call whose list holds a pending and a non-pending user.
C2_Witness ==
  /\ ret.op = "share"
  /\ \E i, j \in DOMAIN ret.users : ret.users[i].isPending /\ ~ret.users[j].isPending
  /\ Len(ret.value) = 1

\* C3 as stated: makeOwnerOfAllWorkflows(user, role) gives user every row that
\* belonged to somebody else, whatever its roleId, and leaves user's rows alone.
C3_ReassignsWhateverRole ==
  ret.op = "makeOwnerOfAllWorkflows" =>
    /\ Len(rows) = Len(prev)
    /\ \A i \in DOMAIN prev :
         IF prev[i].userId # ret.user.id
           THEN rows[i].userId = ret.user.id
           ELSE rows[i] = prev[i]

\* C3 amended: makeOwnerOfAllWorkflows(user, role) gives user exactly the rows
\* that belonged to somebody else AND whose roleId is role.id (workflowId and
\* roleId kept); every other row is unchanged.
C3_ReassignsRowsOfRole ==
  ret.op = "makeOwnerOfAllWorkflows" =>
    /\ Len(rows) = Len(prev)
    /\ \A i \in DOMAIN prev :
         IF prev[i].userId # ret.user.id /\ prev[i].roleId = ret.role.id
           THEN rows[i] = [workflowId |-> prev[i].workflowId,
                           userId |-> ret.user.id, roleId |-> prev[i].roleId]
           ELSE rows[i] = prev[i]

\* One row of another user is reassigned while a row of another user with a
\* different role stays where it was.
C3_Witness ==
  /\ ret.op = "makeOwnerOfAllWorkflows"
  /\ \E i, j \in DOMAIN prev :
       /\ prev[i].userId # ret.user.id /\ prev[i].roleId = ret.role.id
       /\ rows[i].userId = ret.user.id
       /\ prev[j].userId # ret.user.id /\ prev[j].roleId # ret.role.id
       /\ rows[j] = prev[j]

\* C4: getSharing returns a row of the requested workflow that belongs to the
\* user unless allowGlobalScope is true and the user holds options.globalScope;
\* findSharing does the same with hasGlobalScope(scope) (and its role-name
\* filter); each returns null exactly when no row passes these filters.
C4_UserFilterUnlessGlobalScope ==
  /\ ret.op = "getSharing" =>
       LET qualifies == /\ ret.options.allowGlobalScope
                        /\ ret.options.globalScope \in ret.user.scopes
           passing == {row \in Rows(rows) :
                         /\ row.workflowId = ret.workflowId
                         /\ (qualifies \/ row.userId = ret.user.id)}
       IN IF passing = {} THEN ret.value = <<>>
          ELSE Len(ret.value) = 1 /\ ret.value[1] \in passing
  /\ ret.op = "findSharing" =>
       LET qualifies == ret.scope \in ret.user.scopes
           passing == {row \in Rows(rows) :
                         /\ row.workflowId = ret.workflowId
                         /\ (qualifies \/ row.userId = ret.user.id)
                         /\ (ret.roles = <<>> \/ RoleName[row.roleId] \in ret.roles[1])}
       IN IF passing = {} THEN ret.value = <<>>
          ELSE Len(ret.value) = 1 /\ ret.value[1] \in passing

\* getSharing hands a user with the qualifying global scope a row of somebody else.
C4_Witness ==
  /\ ret.op = "getSharing"
  /\ ret.value # <<>>
  /\ ret.value[1].userId # ret.user.id

\* C5: getSharedWorkflows returns exactly the rows with userId = user.id, or
\* the rows of every user when the global role name is 'owner' or 'admin',
\* restricted to options.workflowIds when given.
C5_RoleDecidesUserFilter ==
  ret.op = "getSharedWorkflows" =>
    ret.value =
      SelectSeq(rows, LAMBDA row :
        /\ (ret.user.globalRole = "owner" \/ ret.user.globalRole = "admin"
              \/ row.userId = ret.user.id)
        /\ (ret.workflowIds = <<>> \/ row.workflowId \in ret.workflowIds[1]))

\* A user whose global role is neither owner nor admin holds 'workflow:read'
\* and still does not get the row of another user that is in the table.
C5_Witness ==
  /\ ret.op = "getSharedWorkflows"
  /\ ret.user.globalRole = "member"
  /\ "workflow:read" \in ret.user.scopes
  /\ ret.workflowIds = <<>>
  /\ \E row \in Rows(rows) : row.userId # ret.user.id
  /\ \A row \in Rows(ret.value) : row.userId = ret.user.id

C7_ShareThenFindWithFields ==
  /\ ret.op = "share" =>
       \A fields \in FieldLists :
         LET found == findWithFields(rows, {ret.workflow.id}, fields)
         IN /\ \A i \in DOMAIN ret.users :
                 ~ret.users[i].isPending =>
                   \E j \in DOMAIN found :
                     \A k \in fields :
                       found[j][k] = [workflowId |-> ret.workflow.id,
                                      userId |-> ret.users[i].id,
                                      roleId |-> ret.roleId][k]
            /\ Len(found) =
                 Cardinality({i \in DOMAIN rows : rows[i].workflowId = ret.workflow.id})
            /\ "workflowId" \in fields =>
                 \A j \in DOMAIN found : found[j].workflowId = ret.workflow.id
  /\ ret.op = "findWithFields" =>
       /\ Len(ret.value) =
            Cardinality({i \in DOMAIN rows : rows[i].workflowId \in ret.workflowIds})
       /\ "workflowId" \in ret.fields =>
            \A j \in DOMAIN ret.value : ret.value[j].workflowId \in ret.workflowIds

\* share has saved a row for a workflow while the table holds a row of
\* another workflow.
C7_Witness ==
  /\ ret.op = "share"
  /\ Len(ret.value) >= 1
  /\ \E row \in Rows(rows) : row.workflowId # ret.workflow.id

\* C8: deleteByIds removes exactly the rows whose workflowId is in ids and,
\* when user is given, whose userId is user.id; the other rows stay, in order.
C8_DeleteOnlyListedAndScoped ==
  ret.op = "deleteByIds" =>
    rows =
      SelectSeq(prev, LAMBDA row :
        ~(/\ row.workflowId \in ret.sharedWorkflowIds
          /\ (ret.user = <<>> \/ row.userId = ret.user[1].id)))

\* A delete scoped to a user removes that user's row of a listed workflow and
\* keeps another user's row of a listed workflow.
C8_Witness ==
  /\ ret.op = "deleteByIds"
  /\ ret.user # <<>>
  /\ \E row \in Rows(prev) :
       /\ row.workflowId \in ret.sharedWorkflowIds
       /\ row.userId = ret.user[1].id
       /\ row \notin Rows(rows)
  /\ \E row \in Rows(rows) :
       row.workflowId \in ret.sharedWorkflowIds /\ row.userId # ret.user[1].id

\* C9: findWorkflowIdsByUser returns, one per row and in table order, the
\* workflowId of the rows with userId = user.id (any user for a holder of
\* 'workflow:read') whose roleId is the id of one of roles when roles is
\* given; an empty roles list gives an empty result.
C9_IdsOfMatchingRows ==
  ret.op = "findWorkflowIdsByUser" =>
    LET matching ==
          SelectSeq(rows, LAMBDA row :
            /\ ("workflow:read" \in ret.user.scopes \/ row.userId = ret.user.id)
            /\ (ret.roles = <<>> \/ \E r \in ret.roles[1] : r.id = row.roleId))
    IN /\ Len(ret.value) = Len(matching)
       /\ \A i \in DOMAIN matching : ret.value[i] = matching[i].workflowId
       /\ ret.roles = <<{}>> => ret.value = <<>>

\* An empty roles list yields nothing although a row of the user exists.
C9_Witness ==
  /\ ret.op = "findWorkflowIdsByUser"
  /\ ret.roles = <<{}>>
  /\ \E row \in Rows(rows) : row.userId = ret.user.id
  /\ ret.value = <<>>

\* C10: each cloud-plan function sends exactly one GET, to context.baseUrl and
\* its own fixed path, and settles with the transport's outcome unchanged.
C10_OneGetOutcomeUnchanged ==
  LET endpoint == [getCurrentPlan |-> "/admin/cloud-plan",
                   getCurrentUsage |-> "/cloud/limits",
                   getAdminPanelLoginCode |-> "/admin/auth/login/code"]
  IN ret.op \in DOMAIN endpoint =>
       /\ ret.requests = <<[method |-> "GET", baseUrl |-> ret.context.baseUrl,
                            endpoint |-> endpoint[ret.op]]>>
       /\ ret.value = ret.transport

\* A failed GET of the usage endpoint reaches the caller as that failure.
C10_Witness ==
  /\ ret.op = "getCurrentUsage"
  /\ ~ret.transport.ok
  /\ ret.value = ret.transport
====
